---- MODULE Spec2Model ----
(***************************************************************************)
(* The toast subsystem of patternfly-yew (src/src/toast/mod.rs):           *)
(* the Toaster agent, which forwards a published Toast to one registered   *)
(* ToastViewer, and the ToastViewer component, which keeps the live        *)
(* alerts, a min-heap of expiry instants and one TimeoutTask.              *)
(*                                                                         *)
(* Time is a discrete clock.  Every call of Self::now() may observe the    *)
(* clock one unit later than the previous read, also inside one handler.   *)
(* Option<T> is a sequence of length 0 (None) or 1 (Some).                 *)
(***************************************************************************)
EXTENDS Integers, Sequences, FiniteSets, TLC

\* ------------------------------------------------------------------ bounds
MaxTime == 3        \* the clock runs over 0..MaxTime
MaxLifetime == 2    \* lifetimes chrono can represent: 0..MaxLifetime
MaxToasts == 2      \* number of ToastDispatcher::toast calls in a run

\* The bridges of the ToastViewer components that can be mounted, and the id
\* a ToastDispatcher connects with.
ViewerIds == {"v1", "v2"}
DispatcherIds == {"d"}

\* ------------------------------------------------------------------ Option
None == << >>
Some(x) == << x >>
is_some(o) == o # None

\* A std::time::Duration above chrono's maximum: from_std fails on it.
OutOfRange == MaxLifetime + 1

\* Toast.timeout: Option<std::time::Duration>
ToastTimeouts == {None} \cup {Some(d) : d \in 0..MaxLifetime} \cup {Some(OutOfRange)}

\* chrono::Duration::from_std(d).ok()
from_std(d) == IF d > MaxLifetime THEN None ELSE Some(d)

\* (a - b).to_std().ok(): chrono to std duration, an error when negative
to_std(d) == IF d < 0 THEN None ELSE Some(d)

\* HandlerId::is_respondable: true of a bridge, false of a dispatcher
is_respondable(id) == id \in ViewerIds

\* ------------------------------------------------------------------ state
VARIABLES
    now,      \* the wall clock, Utc::now()
    viewer,   \* Toaster.viewer: HashSet<HandlerId>
    views,    \* per ViewerId: None (not mounted) or Some(ToastViewer)
    issued,   \* history: per ViewerId, the ids add_toast assigned, in order
    closable, \* history: per ViewerId, the ids an onclose callback was made for
    published,\* history: number of toasts published so far
    dropped,  \* history: the titles of the toasts show_toast dropped
    last      \* history: what the last step did

vars == << now, viewer, views, issued, closable, published, dropped, last >>

\* Self::now(): the clock at a read that follows a read at `clock`
ClockReads(clock) == {t \in {clock, clock + 1} : t <= MaxTime}

\* ------------------------------------------------------------ BinaryHeap
\* BinaryHeap<Reverse<DateTime<Utc>>> as the ascending sequence of its items.
RECURSIVE heap_push(_, _)
heap_push(h, x) ==
    IF h = << >> THEN << x >>
    ELSE IF x <= Head(h) THEN << x >> \o h
    ELSE << Head(h) >> \o heap_push(Tail(h), x)

\* The items of a sequence.
Range(s) == {s[i] : i \in 1..Len(s)}

\* ------------------------------------------------------------ ToastViewer
\* Component::create
create == [alerts |-> << >>, counter |-> 0, task |-> None, timeouts |-> << >>]

\* TimeoutService::spawn(duration, ..) called when the clock reads t
spawn(t, duration) == [fire |-> t + duration]

\* The number of TimeoutTask values a ToastViewer holds.
held(self) == IF is_some(self.task) THEN 1 ELSE 0

\* The while loop of trigger_next_cleanup; every iteration reads the clock.
\* Yields the possible [self, now, spawned, tasks]: the viewer and the clock
\* afterwards, whether TimeoutService::spawn was called, and the greatest
\* number of TimeoutTask values alive at once (spawn returns the new task
\* before the assignment to self.task drops the one it replaces).
RECURSIVE trigger_loop(_, _)
trigger_loop(self, clock) ==
    IF self.timeouts = << >>
    THEN {[self |-> self, now |-> clock, spawned |-> FALSE, tasks |-> held(self)]}
    ELSE LET timeout == Head(self.timeouts)
             popped == [self EXCEPT !.timeouts = Tail(self.timeouts)]
         IN UNION {
              LET duration == to_std(timeout - t)
              IN IF is_some(duration)
                 THEN {[self |-> [popped EXCEPT !.task = Some(spawn(t, duration[1]))],
                        now |-> t, spawned |-> TRUE, tasks |-> held(self) + 1]}
                 ELSE trigger_loop(popped, t)
              : t \in ClockReads(clock)}

\* trigger_next_cleanup without its early return when a task is held
trigger_next_cleanup_unguarded(self, clock) == trigger_loop(self, clock)

trigger_next_cleanup(self, clock) ==
    IF is_some(self.task)
    THEN {[self |-> self, now |-> clock, spawned |-> FALSE, tasks |-> held(self)]}
    ELSE trigger_loop(self, clock)

\* schedule_cleanup returning before the push when a task is held
schedule_cleanup_armed_first(self, timeout, clock) ==
    IF is_some(self.task)
    THEN {[self |-> self, now |-> clock, spawned |-> FALSE, tasks |-> held(self)]}
    ELSE trigger_next_cleanup(
            [self EXCEPT !.timeouts = heap_push(self.timeouts, timeout)], clock)

schedule_cleanup(self, timeout, clock) ==
    trigger_next_cleanup(
        [self EXCEPT !.timeouts = heap_push(self.timeouts, timeout)], clock)

\* add_toast taking the number of live alerts as the id
add_toast_len_id(self, toast, clock) ==
    UNION {
      LET conv == IF is_some(toast.timeout) THEN from_std(toast.timeout[1]) ELSE None
          timeout == IF is_some(conv) THEN Some(t + conv[1]) ELSE None
          id == Len(self.alerts)
          onclose == ~ is_some(toast.timeout)
          entry == [id |-> id, title |-> toast.title, onclose |-> onclose,
                    timeout |-> timeout]
          pushed == [self EXCEPT !.counter = self.counter + 1,
                                 !.alerts = Append(self.alerts, entry)]
      IN IF is_some(timeout)
         THEN schedule_cleanup(pushed, timeout[1], t)
         ELSE {[self |-> pushed, now |-> t, spawned |-> FALSE,
                tasks |-> held(pushed)]}
      : t \in ClockReads(clock)}

\* add_toast with the arms of the onclose match swapped
add_toast_onclose_swapped(self, toast, clock) ==
    UNION {
      LET conv == IF is_some(toast.timeout) THEN from_std(toast.timeout[1]) ELSE None
          timeout == IF is_some(conv) THEN Some(t + conv[1]) ELSE None
          id == self.counter
          onclose == is_some(toast.timeout)
          entry == [id |-> id, title |-> toast.title, onclose |-> onclose,
                    timeout |-> timeout]
          pushed == [self EXCEPT !.counter = self.counter + 1,
                                 !.alerts = Append(self.alerts, entry)]
      IN IF is_some(timeout)
         THEN schedule_cleanup(pushed, timeout[1], t)
         ELSE {[self |-> pushed, now |-> t, spawned |-> FALSE,
                tasks |-> held(pushed)]}
      : t \in ClockReads(clock)}

\* add_toast: yields the possible [self, now, spawned, tasks]
add_toast(self, toast, clock) ==
    UNION {
      LET conv == IF is_some(toast.timeout) THEN from_std(toast.timeout[1]) ELSE None
          timeout == IF is_some(conv) THEN Some(t + conv[1]) ELSE None
          id == self.counter
          onclose == ~ is_some(toast.timeout)
          entry == [id |-> id, title |-> toast.title, onclose |-> onclose,
                    timeout |-> timeout]
          pushed == [self EXCEPT !.counter = self.counter + 1,
                                 !.alerts = Append(self.alerts, entry)]
      IN IF is_some(timeout)
         THEN schedule_cleanup(pushed, timeout[1], t)
         ELSE {[self |-> pushed, now |-> t, spawned |-> FALSE,
                tasks |-> held(pushed)]}
      : t \in ClockReads(clock)}

\* retain_alert: [self, render]; f maps each entry of alerts to whether it
\* is kept, and Vec::retain is SelectSeq
retain_alert(self, f) ==
    LET keep(entry) == f[entry]
        kept == SelectSeq(self.alerts, keep)
    IN [self |-> [self EXCEPT !.alerts = kept],
        render |-> Len(self.alerts) # Len(kept)]

\* remove_toast taking the id for a position in alerts (Vec::remove)
remove_toast_by_index(self, id) ==
    LET kept == IF id + 1 <= Len(self.alerts)
                THEN SubSeq(self.alerts, 1, id) \o
                     SubSeq(self.alerts, id + 2, Len(self.alerts))
                ELSE self.alerts
    IN [self |-> [self EXCEPT !.alerts = kept],
        render |-> Len(self.alerts) # Len(kept)]

remove_toast(self, id) ==
    retain_alert(self, [entry \in Range(self.alerts) |-> entry.id # id])

\* not_expired keeping an entry whose expiry is the instant read
not_expired_inclusive(alert, t) ==
    IF is_some(alert.timeout) THEN alert.timeout[1] >= t ELSE TRUE

\* not_expired dropping every entry that has an expiry
not_expired_any(alert, t) == ~ is_some(alert.timeout)

\* not_expired dropping the entries that have no expiry
not_expired_untimed(alert, t) ==
    IF is_some(alert.timeout) THEN alert.timeout[1] > t ELSE FALSE

\* The predicate cleanup retains by, with `t` the clock it read
not_expired(alert, t) ==
    IF is_some(alert.timeout) THEN alert.timeout[1] > t ELSE TRUE

\* cleanup that clears the task and does not arm the next one
cleanup_no_rearm(self, clock) ==
    { LET keep == [alert \in Range(self.alerts) |-> not_expired(alert, t)]
          r == retain_alert([self EXCEPT !.task = None], keep)
      IN [self |-> r.self, now |-> t, spawned |-> FALSE, tasks |-> 0,
          render |-> r.render]
      : t \in ClockReads(clock) }

\* cleanup: yields the possible [self, now, spawned, tasks, render]
cleanup(self, clock) ==
    UNION {
      { LET keep == [alert \in Range(o.self.alerts) |-> not_expired(alert, t)]
            r == retain_alert(o.self, keep)
        IN [self |-> r.self, now |-> t, spawned |-> o.spawned, tasks |-> o.tasks,
            render |-> r.render]
        : t \in ClockReads(o.now) }
      : o \in trigger_next_cleanup([self EXCEPT !.task = None], clock)}

\* ---------------------------------------------------------------- Toaster
connected(set, id) == IF is_respondable(id) THEN set \cup {id} ELSE set

disconnected(set, id) == IF is_respondable(id) THEN set \ {id} ELSE set

\* show_toast dropping a toast without the window alert
show_toast_silent(set, toast) ==
    IF set # {}
    THEN {[to |-> Some(id), failures |-> 0] : id \in set}
    ELSE {[to |-> None, failures |-> 0]}

\* show_toast raising the window alert also when it responds to a viewer
show_toast_noisy(set, toast) ==
    IF set # {}
    THEN {[to |-> Some(id), failures |-> 1] : id \in set}
    ELSE {[to |-> None, failures |-> 1]}

\* show_toast: the possible [to, failures]: the viewer responded to, if any,
\* and the number of window().alert_with_message calls.  HashSet iteration
\* order is unspecified, so iter().next() is any member.
show_toast(set, toast) ==
    IF set # {}
    THEN {[to |-> Some(id), failures |-> 0] : id \in set}
    ELSE {[to |-> None, failures |-> 1]}

\* ------------------------------------------------------------------- steps
Quiet == [op |-> "none", v |-> "", delivered |-> {}, failures |-> 0,
          removed |-> {}, spawned |-> FALSE, tasks |-> 0, armed |-> FALSE,
          id |-> -1, title |-> 0, lifetime |-> None]

Init ==
    /\ now = 0
    /\ viewer = {}
    /\ views = [v \in ViewerIds |-> None]
    /\ issued = [v \in ViewerIds |-> << >>]
    /\ closable = [v \in ViewerIds |-> {}]
    /\ published = 0
    /\ dropped = {}
    /\ last = Quiet

\* The entry a viewer pushed last
Newest(self) == self.alerts[Len(self.alerts)]

\* The entries of `before` that `after` no longer holds
Removed(before, after) == Range(before.alerts) \ Range(after.alerts)

\* Time passes.
Tick ==
    /\ now < MaxTime
    /\ now' = now + 1
    /\ last' = [Quiet EXCEPT !.op = "tick"]
    /\ UNCHANGED << viewer, views, issued, closable, published, dropped >>

\* A ToastViewer is mounted: create, whose bridge connects to the Toaster.
Mount(v) ==
    /\ views[v] = None
    /\ views' = [views EXCEPT ![v] = Some(create)]
    /\ viewer' = connected(viewer, v)
    /\ issued' = [issued EXCEPT ![v] = << >>]
    /\ closable' = [closable EXCEPT ![v] = {}]
    /\ last' = [Quiet EXCEPT !.op = "mount", !.v = v]
    /\ UNCHANGED << now, published, dropped >>

\* A ToastViewer is destroyed: its bridge disconnects, its TimeoutTask drops.
Unmount(v) ==
    /\ views[v] # None
    /\ views' = [views EXCEPT ![v] = None]
    /\ viewer' = disconnected(viewer, v)
    /\ last' = [Quiet EXCEPT !.op = "unmount", !.v = v]
    /\ UNCHANGED << now, issued, closable, published, dropped >>

\* ToastDispatcher::new().toast(toast): the dispatcher connects, the Toaster
\* handles Request::Toast, the chosen viewer handles Perform(ShowToast).
Publish(d, lifetime) ==
    /\ published < MaxToasts
    /\ published' = published + 1
    /\ LET toast == [title |-> published + 1, timeout |-> lifetime]
           set == connected(viewer, d)
       IN \E s \in show_toast(set, toast) :
            /\ viewer' = disconnected(set, d)
            /\ IF is_some(s.to)
               THEN LET v == s.to[1]
                    IN \E o \in add_toast(views[v][1], toast, now) :
                         /\ views' = [views EXCEPT ![v] = Some(o.self)]
                         /\ now' = o.now
                         /\ issued' = [issued EXCEPT
                                         ![v] = Append(@, Newest(o.self).id)]
                         /\ closable' = [closable EXCEPT ![v] =
                              @ \cup {e.id : e \in {x \in Range(o.self.alerts) :
                                                      x.onclose}}]
                         /\ dropped' = dropped
                         /\ last' = [Quiet EXCEPT
                                       !.op = "publish", !.v = v,
                                       !.delivered = {v},
                                       !.failures = s.failures,
                                       !.spawned = o.spawned,
                                       !.tasks = o.tasks,
                                       !.armed = is_some(views[v][1].task),
                                       !.id = Newest(o.self).id,
                                       !.title = toast.title,
                                       !.lifetime = toast.timeout]
               ELSE /\ dropped' = dropped \cup {toast.title}
                    /\ last' = [Quiet EXCEPT !.op = "publish",
                                             !.failures = s.failures,
                                             !.title = toast.title,
                                             !.lifetime = toast.timeout]
                    /\ UNCHANGED << now, views, issued, closable >>

\* The TimeoutTask of viewer v fires and the viewer handles Cleanup.
Fire(v) ==
    /\ views[v] # None
    /\ is_some(views[v][1].task)
    /\ now >= views[v][1].task[1].fire
    /\ \E o \in cleanup(views[v][1], now) :
         /\ views' = [views EXCEPT ![v] = Some(o.self)]
         /\ now' = o.now
         /\ last' = [Quiet EXCEPT !.op = "cleanup", !.v = v,
                                  !.removed = Removed(views[v][1], o.self),
                                  !.spawned = o.spawned,
                                  !.tasks = o.tasks]
    /\ UNCHANGED << viewer, issued, closable, published, dropped >>

\* An onclose callback of viewer v is invoked and the viewer handles Close(id).
Close(v, id) ==
    /\ views[v] # None
    /\ id \in closable[v]
    /\ LET r == remove_toast(views[v][1], id)
       IN /\ views' = [views EXCEPT ![v] = Some(r.self)]
          /\ last' = [Quiet EXCEPT !.op = "close", !.v = v, !.id = id,
                                   !.removed = Removed(views[v][1], r.self)]
    /\ UNCHANGED << now, viewer, issued, closable, published, dropped >>

Next ==
    \/ Tick
    \/ \E v \in ViewerIds : Mount(v)
    \/ \E v \in ViewerIds : Unmount(v)
    \/ \E d \in DispatcherIds, l \in ToastTimeouts : Publish(d, l)
    \/ \E v \in ViewerIds : Fire(v)
    \/ \E v \in ViewerIds, id \in 0..MaxToasts : Close(v, id)

Spec == Init /\ [][Next]_vars

\* ------------------------------------------------------------- properties
Mounted == {v \in ViewerIds : views[v] # None}
View(v) == views[v][1]
Timed(v) == {e \in Range(View(v).alerts) : is_some(e.timeout)}

\* C1: whenever a viewer holds a task, its fire instant is at most every
\* instant in the timeouts heap and at most the expiry of every live entry.
C1_TaskIsEarliestDeadline ==
    \A v \in Mounted :
        is_some(View(v).task) =>
            /\ \A h \in Range(View(v).timeouts) : View(v).task[1].fire <= h
            /\ \A e \in Timed(v) : View(v).task[1].fire <= e.timeout[1]

\* C2: after a viewer handled Cleanup with the clock reading now, no entry
\* whose expiry is at or before now is left in its alerts.
C2_EventualReap ==
    last.op = "cleanup" =>
        \A e \in Timed(last.v) : e.timeout[1] > now

\* A Cleanup reaped an entry while another entry stays and a task is armed.
C2_Witness ==
    /\ last.op = "cleanup"
    /\ last.removed # {}
    /\ View(last.v).alerts # << >>
    /\ is_some(View(last.v).task)

\* C3: every entry a Cleanup removed has an expiry, and that expiry is at or
\* before the clock the Cleanup read: none is reaped before its expiry.
C3_NoPrematureReap ==
    last.op = "cleanup" =>
        \A e \in last.removed : is_some(e.timeout) /\ e.timeout[1] <= now

\* A Cleanup ran before the expiry of an entry, which is still live.
C3_Witness ==
    /\ last.op = "cleanup"
    /\ \E e \in Timed(last.v) : e.timeout[1] > now

\* C4: no handler ever has two TimeoutTask values alive; a toast added while
\* a task is held spawns none; a viewer holds at most one.
C4_SingleTimer ==
    /\ last.tasks <= 1
    /\ (last.op = "publish" /\ last.armed) => ~ last.spawned
    /\ \A v \in Mounted : Len(View(v).task) <= 1

\* A toast with an expiry was added while a task was held.
C4_Witness ==
    /\ last.op = "publish"
    /\ last.armed
    /\ last.delivered # {}
    /\ \E e \in Timed(last.v) : e.id = last.id

\* C5: between handlers, a non-empty timeouts heap implies a held task.
C5_PendingImpliesArmed ==
    \A v \in Mounted :
        View(v).timeouts # << >> => is_some(View(v).task)

\* A toast was added while a task was held: its instant waits in the heap.
C5_Witness ==
    /\ last.op = "publish"
    /\ last.delivered # {}
    /\ View(last.v).timeouts # << >>
    /\ is_some(View(last.v).task)

\* The titles a viewer shows
Titles(v) == {e.title : e \in Range(View(v).alerts)}

\* C6: a toast published while Toaster.viewer is empty raises exactly one
\* window alert, leaves Toaster.viewer and every ToastViewer as they were,
\* and no viewer, mounted then or later, ever shows a dropped toast.
C6_DropNotQueue ==
    [][ /\ (published' = published + 1 /\ viewer = {}) =>
              /\ viewer' = viewer
              /\ views' = views
              /\ last'.failures = 1
              /\ last'.delivered = {}
              /\ dropped' = dropped \cup {published'}
        /\ \A v \in ViewerIds :
              views'[v] # None =>
                  \A e \in Range(views'[v][1].alerts) : e.title \notin dropped'
      ]_vars

\* A toast was dropped, and a viewer mounted later shows a later toast.
C6_Witness ==
    /\ dropped # {}
    /\ \E v \in Mounted : View(v).alerts # << >>

\* C7: a publish handled while Toaster.viewer is non-empty raises no window
\* alert and adds the toast to the alerts of exactly one viewer, a registered
\* one; every other viewer is unchanged and no two viewers show one toast.
C7_ExactlyOneViewer ==
    [][ /\ (published' = published + 1 /\ viewer # {}) =>
              /\ last'.failures = 0
              /\ Cardinality(last'.delivered) = 1
              /\ last'.delivered \subseteq viewer
              /\ dropped' = dropped
              /\ \A v \in ViewerIds :
                    IF v \in last'.delivered
                    THEN /\ Len(views'[v][1].alerts) = Len(views[v][1].alerts) + 1
                         /\ Newest(views'[v][1]).title = published'
                    ELSE views'[v] = views[v]
        /\ \A v, w \in ViewerIds :
              (v # w /\ views'[v] # None /\ views'[w] # None) =>
                  {e.title : e \in Range(views'[v][1].alerts)} \cap
                  {e.title : e \in Range(views'[w][1].alerts)} = {}
      ]_vars

\* A toast was delivered while two viewers were registered.
C7_Witness ==
    /\ last.op = "publish"
    /\ Cardinality(viewer) = 2
    /\ Cardinality(last.delivered) = 1

\* C8: an entry added for a toast without a lifetime has no expiry, and while
\* its viewer lives no step removes it but that viewer's Close of its id.
C8_UntimedOnlyClosed ==
    [][ \A v \in ViewerIds :
          (views[v] # None /\ views'[v] # None) =>
              \A e \in Range(views[v][1].alerts) :
                  e.onclose =>
                      /\ e.timeout = None
                      /\ e \notin Range(views'[v][1].alerts) =>
                            (last'.op = "close" /\ last'.v = v /\ last'.id = e.id)
      ]_vars

\* A Cleanup reaped an entry and left one that has no lifetime.
C8_Witness ==
    /\ last.op = "cleanup"
    /\ last.removed # {}
    /\ \E e \in Range(View(last.v).alerts) : e.onclose

\* C9: in every state of every viewer and for every id, remove_toast twice
\* gives what remove_toast once gives; it changes alerts only, removing the
\* entries of that id; for an id no live entry has it changes nothing.
C9_CloseIdempotentTotal ==
    \A v \in Mounted : \A id \in 0..(MaxToasts + 1) :
        LET self == View(v)
            once == remove_toast(self, id)
            twice == remove_toast(once.self, id)
        IN /\ twice.self = once.self
           /\ ~ twice.render
           /\ once.self = [self EXCEPT !.alerts = once.self.alerts]
           /\ Range(once.self.alerts) = {e \in Range(self.alerts) : e.id # id}
           /\ (\A e \in Range(self.alerts) : e.id # id) =>
                  (once.self = self /\ ~ once.render)

\* A Close arrived for an id whose entry was gone, with other entries live.
C9_Witness ==
    /\ last.op = "close"
    /\ last.removed = {}
    /\ View(last.v).alerts # << >>

\* C10: the ids a viewer assigned are strictly increasing in the order of
\* assignment, and its live entries have pairwise different ids among them.
C10_IdsUniqueIncreasing ==
    /\ \A v \in ViewerIds : \A i, j \in 1..Len(issued[v]) :
          i < j => issued[v][i] < issued[v][j]
    /\ \A v \in Mounted :
          /\ \A i, j \in 1..Len(View(v).alerts) :
                i # j => View(v).alerts[i].id # View(v).alerts[j].id
          /\ {e.id : e \in Range(View(v).alerts)} \subseteq Range(issued[v])
          /\ \A x \in Range(issued[v]) : x < View(v).counter

\* An id was assigned after an earlier entry had been removed.
C10_Witness ==
    \E v \in Mounted :
        /\ Len(issued[v]) >= 2
        /\ Len(View(v).alerts) < Len(issued[v])
        /\ last.op = "publish" /\ last.v = v

\* Whether the rendering layer of viewer v can issue Close(id): the guard of
\* Close, an onclose callback having been made for the id.
CanClose(v, id) == views[v] # None /\ id \in closable[v]

Scheduled(v) ==
    Range(View(v).timeouts) \cup
    (IF is_some(View(v).task) THEN {View(v).task[1].fire} ELSE {})

\* The least member of a non-empty set of instants
Earliest(S) == CHOOSE x \in S : \A y \in S : x <= y

\* C12: after a Cleanup, if a deadline the scheduler holds is still in the
\* future a task is armed for the least such deadline; if none is in the
\* future no task is armed and the heap is empty.
C12_RearmOnTick ==
    last.op = "cleanup" =>
        LET future == {h \in Scheduled(last.v) : h > now}
        IN IF future # {}
           THEN /\ is_some(View(last.v).task)
                /\ View(last.v).task[1].fire = Earliest(future)
           ELSE /\ View(last.v).task = None
                /\ View(last.v).timeouts = << >>

\* C13: every live entry whose expiry is still in the future has that instant
\* in the timeouts heap or as the instant of the armed task.
C13_FutureExpiryScheduled ==
    \A v \in Mounted : \A e \in Timed(v) :
        e.timeout[1] > now => e.timeout[1] \in Scheduled(v)

\* A Cleanup left an entry that expires later, and re-armed for its instant.
C13_Witness ==
    /\ last.op = "cleanup"
    /\ last.spawned
    /\ \E e \in Timed(last.v) :
          /\ e.timeout[1] > now
          /\ View(last.v).task = Some([fire |-> e.timeout[1]])

\* C14: whenever a viewer shows an entry that has an expiry, it holds a task
\* (so a Cleanup will come and the entry goes without a further event).
C14_TimedEntryHasTask ==
    \A v \in Mounted : Timed(v) # {} => is_some(View(v).task)

\* C15: every live entry has an expiry or a close callback.
C15_EveryEntryRemovable ==
    \A v \in Mounted : \A e \in Range(View(v).alerts) :
        is_some(e.timeout) \/ e.onclose

====
